---- MODULE Spec2Model ----
(***************************************************************************)
(* A model of predict.py: the two custom pipeline stages                   *)
(* (EncodeCategorical, ImputeCategorical), the library estimators they     *)
(* delegate to (LabelEncoder, Imputer(missing_values=0,                    *)
(* strategy='most_frequent'), Pipeline), and the script's top-to-bottom    *)
(* run (module-level load, meta, download, load_data, fit, evaluate,       *)
(* pickle, interactive predict).                                           *)
(*                                                                         *)
(* Strings are sequences of character codes (32 ' ', 46 '.', 63 '?',       *)
(* 65 'A', ...), compared as Python 2 compares byte strings.  A table cell *)
(* is a tagged value: Str(s) for a string, Num(n) for a number.  A table   *)
(* is a function from column names to equally long sequences of cells      *)
(* (a pandas DataFrame, column-wise).                                      *)
(***************************************************************************)
EXTENDS Integers, Sequences, FiniteSets, TLC

\* ------------------------------------------------------------------ bounds
\* Rows of the table an estimator is fitted on (adult.data, in the script).
MaxRows == 2

\* ------------------------------------------------------------------ values
Str(s) == [k |-> "str", s |-> s, n |-> 0]
Num(n) == [k |-> "num", s |-> <<>>, n |-> n]

\* Python 2 str comparison: lexicographic on character codes, a proper
\* prefix first.
RECURSIVE LexLess(_, _)
LexLess(s, t) ==
    IF s = <<>> THEN t # <<>>
    ELSE IF t = <<>> THEN FALSE
    ELSE IF Head(s) # Head(t) THEN Head(s) < Head(t)
    ELSE LexLess(Tail(s), Tail(t))

\* The order numpy sorts one column's values by (a column holds strings
\* only or numbers only).
CellLess(a, b) ==
    IF a.k = "num" /\ b.k = "num" THEN a.n < b.n
    ELSE LexLess(a.s, b.s)

Range(q) == {q[i] : i \in DOMAIN q}

\* np.unique: the distinct values, sorted ascending.
RECURSIVE SortedUnique(_)
SortedUnique(S) ==
    IF S = {} THEN <<>>
    ELSE LET m == CHOOSE x \in S : \A y \in S \ {x} : CellLess(x, y)
         IN  <<m>> \o SortedUnique(S \ {m})

\* np.searchsorted(classes, v) for a v that is in classes: its 0-based index.
IndexOf(classes, v) == (CHOOSE i \in DOMAIN classes : classes[i] = v) - 1

\* ------------------------------------------------------------------ tables
\* The column names of predict.py (lines 49-65), one of each kind the script
\* treats differently: a prompted numeric feature, an imputed categorical
\* feature, the numeric feature the prompt defaults, a categorical feature
\* that is not imputed, and the target (last).
names == <<"age", "workclass", "fnlwgt", "sex", "income">>

\* names[:-1]
features == SubSeq(names, 1, Len(names) - 1)

\* Raw values of the data files: "\s*," leaves the blank after each comma in
\* front of a field, so a categorical value reads " ?", " A", ...
RawValues ==
    [ age       |-> {Num(39)},
      workclass |-> {Str(<<32, 63>>), Str(<<32, 65>>), Str(<<32, 66>>)},
      fnlwgt    |-> {Num(77516)},
      sex       |-> {Str(<<32, 70>>), Str(<<32, 77>>)} ]

\* Values of a table whose categorical columns hold integer codes already.
CodedValues ==
    [ age       |-> {Num(39)},
      workclass |-> {Num(0), Num(1), Num(2)},
      fnlwgt    |-> {Num(77516)},
      sex       |-> {Num(0), Num(1)} ]

Columns == Range(features)

\* One row: a value of its column's set in every column.
RowsOf(values) ==
    { [age |-> a, workclass |-> w, fnlwgt |-> f, sex |-> x] :
        a \in values.age, w \in values.workclass, f \in values.fnlwgt, x \in values.sex }

\* A DataFrame built from a sequence of rows.
FromRows(rs) == [c \in Columns |-> [i \in DOMAIN rs |-> rs[i][c]]]

\* All tables of 1..n rows with the given values.
TablesOf(values, n) ==
    UNION { {FromRows(rs) : rs \in [1..r -> RowsOf(values)]} : r \in 1..n }

NRows(table) == Len(table[features[1]])

\* ------------------------------------------------------------------ results
\* Python's None in an attribute that otherwise holds a table or a dict, a
\* column list, an Imputer.
None == [isNone |-> TRUE, v |-> <<>>]
NoColumns == [isNone |-> TRUE, v |-> {}]
NoImputer == [isNone |-> TRUE, v |-> [fitted |-> FALSE, statistics |-> <<>>]]
Some(v) == [isNone |-> FALSE, v |-> v]

NoTable == <<>>

\* A call that returned `out`; `data` is the caller's table after the call.
Return(out, data) == [err |-> "", out |-> out, data |-> data]
\* A call that raised the exception class `kind`.
Raise(kind, data) == [err |-> kind, out |-> NoTable, data |-> data]

\* ------------------------------------------------------------------ LabelEncoder
\* LabelEncoder().fit(y): classes_ = np.unique(y)
LabelEncoderFit(y) == SortedUnique(Range(y))

\* "y contains new labels"
Unseen(classes, y) == \E i \in DOMAIN y : y[i] \notin Range(classes)

\* LabelEncoder.transform(y) for labels all seen: np.searchsorted(classes_, y)
LabelEncoderTransform(classes, y) ==
    [i \in DOMAIN y |-> Num(IndexOf(classes, y[i]))]

\* ------------------------------------------------------------------ EncodeCategorical
\* __init__
EncodeCategorical(columns) == [columns |-> columns, encoders |-> None]

\* A fit that keeps one LabelEncoder for all the columns: each column ends up
\* with the classes of the column fitted last.
EncodeCategoricalFitShared(self, data) ==
    LET cols == IF self.columns.isNone THEN Columns ELSE self.columns.v
        last == CHOOSE c \in cols : TRUE
    IN  [ self |-> [ columns  |-> Some(cols),
                     encoders |-> Some([c \in cols |-> LabelEncoderFit(data[last])]) ],
          err  |-> "" ]

EncodeCategoricalFit(self, data) ==
    LET cols == IF self.columns.isNone THEN Columns ELSE self.columns.v
    IN  [ self |-> [ columns  |-> Some(cols),
                     encoders |-> Some([c \in cols |-> LabelEncoderFit(data[c])]) ],
          err  |-> "" ]

\* A transform that writes the codes into the table it was given (no copy).
EncodeCategoricalTransformInPlace(self, data) ==
    IF self.encoders.isNone
    THEN Raise("AttributeError", data)
    ELSE LET enc == self.encoders.v
             out == [c \in Columns |->
                       IF c \in DOMAIN enc /\ ~Unseen(enc[c], data[c])
                       THEN LabelEncoderTransform(enc[c], data[c])
                       ELSE data[c]]
         IN  IF \E c \in DOMAIN enc : Unseen(enc[c], data[c])
             THEN Raise("ValueError", out)
             ELSE Return(out, out)

\* A transform of an encoder whose encoders start as an empty dict: before
\* the fit there is nothing to encode, and the copy is returned.
EncodeCategoricalTransformUnchecked(self, data) ==
    LET enc == self.encoders.v
    IN  IF \E c \in DOMAIN enc : Unseen(enc[c], data[c])
        THEN Raise("ValueError", data)
        ELSE Return([c \in Columns |->
                       IF c \in DOMAIN enc
                       THEN LabelEncoderTransform(enc[c], data[c])
                       ELSE data[c]],
                    data)

EncodeCategoricalTransform(self, data) ==
    IF self.encoders.isNone
    THEN Raise("AttributeError", data)
    ELSE LET enc == self.encoders.v
         IN  IF \E c \in DOMAIN enc : Unseen(enc[c], data[c])
             THEN Raise("ValueError", data)
             ELSE Return([c \in Columns |->
                            IF c \in DOMAIN enc
                            THEN LabelEncoderTransform(enc[c], data[c])
                            ELSE data[c]],
                         data)

\* ------------------------------------------------------------------ Imputer
\* Imputer(missing_values=0, ...)
missing_values == 0

Count(col, v) == Cardinality({i \in DOMAIN col : col[i].n = v})

\* A mode that counts the missing entries as well.
MostFrequentOfAll(col) ==
    LET present == {col[i].n : i \in DOMAIN col}
        best    == {v \in present : \A w \in present : Count(col, w) <= Count(col, v)}
    IN  <<CHOOSE v \in best : \A w \in best : v <= w>>

\* strategy='most_frequent' on one column: the mode of the entries that are
\* not missing, the smallest on a tie (scipy.stats.mode); <<>> stands for the
\* NaN of a column with no entry left.
MostFrequent(col) ==
    LET present == {col[i].n : i \in DOMAIN col} \ {missing_values}
        best    == {v \in present : \A w \in present : Count(col, w) <= Count(col, v)}
    IN  IF present = {} THEN <<>>
        ELSE <<CHOOSE v \in best : \A w \in best : v <= w>>

\* float(s) of a string: blanks around a run of digits.
IsNumber(s) ==
    LET t == SelectSeq(s, LAMBDA ch : ch # 32)
    IN  t # <<>> /\ \A i \in DOMAIN t : t[i] \in 48..57

\* check_array(..., dtype=float) refuses a cell it cannot convert.
NonNumeric(data, cols) ==
    \E c \in cols : \E i \in DOMAIN data[c] :
        data[c][i].k # "num" /\ ~IsNumber(data[c][i].s)

\* ------------------------------------------------------------------ ImputeCategorical
\* __init__
ImputeCategorical(columns) == [columns |-> columns, imputer |-> NoImputer]

\* The Imputer object is assigned before its fit runs, so a fit that raises
\* leaves an Imputer that was never fitted.
ImputeCategoricalFit(self, data) ==
    LET cols == IF self.columns.isNone THEN Columns ELSE self.columns.v
    IN  IF cols = {} \/ NonNumeric(data, cols)
        THEN [ self |-> [ columns |-> Some(cols),
                          imputer |-> Some([fitted |-> FALSE, statistics |-> <<>>]) ],
               err  |-> "ValueError" ]
        ELSE [ self |-> [ columns |-> Some(cols),
                          imputer |-> Some([fitted |-> TRUE,
                                            statistics |-> [c \in cols |-> MostFrequent(data[c])]]) ],
               err  |-> "" ]

\* Imputer.transform drops a column whose statistic is NaN, and the
\* assignment of the narrower array to output[self.columns] raises.
ImputeCategoricalTransform(self, data) ==
    IF self.imputer.isNone THEN Raise("AttributeError", data)
    ELSE IF ~self.imputer.v.fitted THEN Raise("NotFittedError", data)
    ELSE LET cols == self.columns.v
             st   == self.imputer.v.statistics
         IN  IF NonNumeric(data, cols) THEN Raise("ValueError", data)
             ELSE IF \E c \in cols : st[c] = <<>> THEN Raise("ValueError", data)
             ELSE Return([c \in Columns |->
                            IF c \in cols
                            THEN [i \in DOMAIN data[c] |->
                                    IF data[c][i].n = missing_values
                                    THEN Num(st[c][1]) ELSE data[c][i]]
                            ELSE data[c]],
                         data)

\* ------------------------------------------------------------------ LogisticRegression
\* The labels yencode produces for the two income classes.
Labels == {0, 1}

LogisticRegression == [fitted |-> FALSE, classes |-> {}]

\* fit(X, y): X must be numeric and y must hold two classes; what is learnt
\* is kept as the classes only.
LogisticRegressionFit(self, X, y) ==
    IF NonNumeric(X, Columns) \/ Cardinality(Range(y)) < 2
    THEN [self |-> self, err |-> "ValueError"]
    ELSE [self |-> [fitted |-> TRUE, classes |-> Range(y)], err |-> ""]

\* predict(X): one of the fitted classes for every row; which one is the
\* learnt coefficients' business, left open here.
LogisticRegressionPredict(self, X) ==
    IF ~self.fitted THEN {Raise("NotFittedError", X)}
    ELSE IF NonNumeric(X, Columns) THEN {Raise("ValueError", X)}
    ELSE {Return(yhat, X) : yhat \in [1..NRows(X) -> self.classes]}

\* ------------------------------------------------------------------ Pipeline
\* The pipeline with the imputer put first.
stepsImputerFirst == <<"imputer", "encoder", "classifier">>

\* The steps of census, in order (lines 324-328).
steps == <<"encoder", "imputer", "classifier">>

\* Pipeline([...]) over an encoder and an imputer with the given columns.
Pipeline(encoderColumns, imputerColumns) ==
    [ encoder    |-> EncodeCategorical(encoderColumns),
      imputer    |-> ImputeCategorical(imputerColumns),
      classifier |-> LogisticRegression ]

StageFit(name, self, X) ==
    IF name = "encoder" THEN EncodeCategoricalFit(self, X)
    ELSE ImputeCategoricalFit(self, X)

StageTransform(name, self, X) ==
    IF name = "encoder" THEN EncodeCategoricalTransform(self, X)
    ELSE ImputeCategoricalTransform(self, X)

\* The columns of X that hold a string.
StringColumns(X) == {c \in Columns : NonNumeric(X, {c})}

\* One entry of the record of stage calls a pipeline call makes.
Called(name, method, X) == [stage |-> name, method |-> method, strings |-> StringColumns(X)]

\* Every step but the last, in order, from step i on: fit-then-transform when
\* fitting (TransformerMixin.fit_transform), transform alone otherwise; the
\* first exception ends the walk.
RECURSIVE PreTransform(_, _, _, _, _)
PreTransform(self, X, i, fitting, trace) ==
    IF i >= Len(steps)
    THEN [self |-> self, X |-> X, err |-> "", trace |-> trace]
    ELSE LET name  == steps[i]
             f     == IF fitting THEN StageFit(name, self[name], X)
                      ELSE [self |-> self[name], err |-> ""]
             self1 == [self EXCEPT ![name] = f.self]
             tr1   == IF fitting THEN Append(trace, Called(name, "fit", X)) ELSE trace
         IN  IF f.err # ""
             THEN [self |-> self1, X |-> X, err |-> f.err, trace |-> tr1]
             ELSE LET t   == StageTransform(name, f.self, X)
                      tr2 == Append(tr1, Called(name, "transform", X))
                  IN  IF t.err # ""
                      THEN [self |-> self1, X |-> X, err |-> t.err, trace |-> tr2]
                      ELSE PreTransform(self1, t.out, i + 1, fitting, tr2)

\* Pipeline.fit(X, y)
PipelineFit(self, X, y) ==
    LET pre == PreTransform(self, X, 1, TRUE, <<>>)
    IN  IF pre.err # "" THEN [self |-> pre.self, err |-> pre.err, trace |-> pre.trace]
        ELSE LET last == steps[Len(steps)]
                 f    == LogisticRegressionFit(pre.self[last], pre.X, y)
             IN  [ self  |-> [pre.self EXCEPT ![last] = f.self],
                   err   |-> f.err,
                   trace |-> Append(pre.trace, Called(last, "fit", pre.X)) ]

\* A predict that walks the transformers with fit_transform.
PipelinePrePredictRefit(self, X) == PreTransform(self, X, 1, TRUE, <<>>)

\* The walk Pipeline.predict(X) makes through the transformers.
PipelinePrePredict(self, X) == PreTransform(self, X, 1, FALSE, <<>>)

\* Pipeline.predict(X): the results it may end in.
PipelinePredict(self, X) ==
    LET pre == PipelinePrePredict(self, X)
    IN  IF pre.err # "" THEN {Raise(pre.err, X)}
        ELSE {[r EXCEPT !.data = X] :
                r \in LogisticRegressionPredict(pre.self[steps[Len(steps)]], pre.X)}

\* ------------------------------------------------------------------ state
VARIABLES
    \* the classes on their own
    stage,      \* one estimator object: [kind, self]
    train,      \* the table it is to be fitted on
    fitArg,     \* the table of its last fit call that returned (None before)
    call,       \* its last method call: [op, arg, res, trace]
    \* a run of the script
    pc,         \* the statement the run is at
    files,      \* the files in data/
    log,        \* the file reads and writes so far: <<"read" | "write", name>>
    server,     \* adult.data as the repository serves it: [data, target]
    data,       \* the module-level frame of line 67
    meta,       \* the module-level meta of line 159
    dataset,    \* the Bunch load_data returned
    yencode,    \* the target LabelEncoder's classes_
    census,     \* the pipeline
    y_true,     \* encoded test targets
    y_pred,     \* predictions for the test table
    pickled,    \* what data/classifier.pickle holds
    model,      \* the pipeline load_model returned
    column,     \* predict's loop: index into feature_names[:-1]
    record,     \* predict's dict, as the values stored so far in column order
    asked,      \* predict's last prompt: [column, val, stored]
    err,        \* the exception that ended the run: [kind, at]
    calls       \* the stage calls of every pipeline call so far

apiVars == <<stage, train, fitArg, call>>

scriptVars == <<pc, files, log, server, data, meta, dataset, yencode, census, y_true,
                y_pred, pickled, model, column, record, asked, err, calls>>

vars == <<apiVars, scriptVars>>

NoCall == [op |-> "none", arg |-> NoTable, res |-> Return(NoTable, NoTable), trace |-> <<>>]

NoFrame == [data |-> NoTable, target |-> <<>>]
NoMeta == [target_names |-> {}, categorical_features |-> <<>>]
NoBunch == [data |-> NoTable, target |-> <<>>, data_test |-> NoTable, target_test |-> <<>>,
            target_names |-> {}, categorical_features |-> <<>>]
NoPipeline == Pipeline(NoColumns, NoColumns)
NotAsked == [column |-> "", val |-> <<>>, stored |-> FALSE]
NoError == [kind |-> "", at |-> ""]

\* The script's variables before the script has run a statement.
ScriptStart ==
    /\ log = <<>>
    /\ data = NoFrame
    /\ meta = NoMeta
    /\ dataset = NoBunch
    /\ yencode = <<>>
    /\ census = NoPipeline
    /\ y_true = <<>>
    /\ y_pred = <<>>
    /\ pickled = NoPipeline
    /\ model = NoPipeline
    /\ column = 1
    /\ record = <<>>
    /\ asked = NotAsked
    /\ err = NoError
    /\ calls = <<>>

\* ------------------------------------------------------------------ the classes on their own
\* The columns arguments the constructors are given.
ColumnArgs == {NoColumns} \cup {Some(C) : C \in SUBSET {"workclass", "sex"}}

\* One-row tables, as the interactive record is.
RawRecords == TablesOf(RawValues, 1)
CodedRecords == TablesOf(CodedValues, 1)

\* Tables a stage is fitted on: raw for an encoder or a pipeline, coded for
\* an imputer (which may be handed a raw one by mistake).
RawFitTables == TablesOf(RawValues, MaxRows)
CodedFitTables == TablesOf(CodedValues, MaxRows) \cup RawRecords

FitTables(kind) == IF kind = "imputer" THEN CodedFitTables ELSE RawFitTables

\* Tables handed to transform / predict: the training table, or any record.
OtherTables(kind) ==
    (IF kind = "imputer" THEN CodedRecords \cup RawRecords ELSE RawRecords)
    \cup {train}

InitApi ==
    /\ stage \in
          {[kind |-> "encoder", self |-> EncodeCategorical(C)] : C \in ColumnArgs}
          \cup {[kind |-> "imputer", self |-> ImputeCategorical(C)] : C \in ColumnArgs}
          \cup {[kind |-> "pipeline",
                 self |-> Pipeline(Some({"workclass", "sex"}), Some({"workclass"}))]}
    /\ train \in FitTables(stage.kind)
    /\ fitArg = None
    /\ call = NoCall
    /\ pc = "idle"
    /\ files = {}
    /\ server = NoFrame
    /\ ScriptStart

\* stage.fit(train) on an encoder or an imputer
Fit ==
    /\ stage.kind \in {"encoder", "imputer"}
    /\ LET f == StageFit(stage.kind, stage.self, train)
       IN  /\ stage' = [stage EXCEPT !.self = f.self]
           /\ fitArg' = IF f.err = "" THEN Some(train) ELSE fitArg
           /\ call' = [op |-> "fit", arg |-> train,
                       res |-> IF f.err = "" THEN Return(NoTable, train) ELSE Raise(f.err, train),
                       trace |-> <<>>]
    /\ UNCHANGED <<train, scriptVars>>

\* stage.transform(T) on an encoder or an imputer
Transform ==
    /\ stage.kind \in {"encoder", "imputer"}
    /\ \E T \in OtherTables(stage.kind) :
          call' = [op |-> "transform", arg |-> T,
                   res |-> StageTransform(stage.kind, stage.self, T),
                   trace |-> <<>>]
    /\ UNCHANGED <<stage, train, fitArg, scriptVars>>

\* pipeline.fit(train, y)
FitPipeline ==
    /\ stage.kind = "pipeline"
    /\ \E y \in [1..NRows(train) -> Labels] :
          LET f == PipelineFit(stage.self, train, y)
          IN  /\ stage' = [stage EXCEPT !.self = f.self]
              /\ fitArg' = IF f.err = "" THEN Some(train) ELSE fitArg
              /\ call' = [op |-> "fit", arg |-> train,
                          res |-> IF f.err = "" THEN Return(NoTable, train) ELSE Raise(f.err, train),
                          trace |-> f.trace]
    /\ UNCHANGED <<train, scriptVars>>

\* pipeline.predict(T)
PredictPipeline ==
    /\ stage.kind = "pipeline"
    /\ \E T \in OtherTables(stage.kind) :
          LET pre == PipelinePrePredict(stage.self, T)
          IN  \E r \in PipelinePredict(stage.self, T) :
                /\ stage' = [stage EXCEPT !.self = pre.self]
                /\ call' = [op |-> "predict", arg |-> T, res |-> r, trace |-> pre.trace]
    /\ UNCHANGED <<train, fitArg, scriptVars>>

NextApi == Fit \/ Transform \/ FitPipeline \/ PredictPipeline

SpecApi == InitApi /\ [][NextApi]_vars

\* ------------------------------------------------------------------ claims: the classes on their own
\* The columns the stage was fitted with.
FittedColumns == stage.self.columns.v

EncoderFitted == stage.kind = "encoder" /\ ~stage.self.encoders.isNone

ImputerFitted ==
    stage.kind = "imputer" /\ ~stage.self.imputer.isNone /\ stage.self.imputer.v.fitted

\* The integer code of x among a training column's values: the number of
\* distinct training values below it.
CodeIn(col, x) == Cardinality({v \in Range(col) : CellLess(v, x)})

\* The codes transform owes for the table arg, column by column.
Encoded(arg) ==
    \A c \in Columns : \A i \in DOMAIN arg[c] :
        call.res.out[c][i] =
            IF c \in FittedColumns THEN Num(CodeIn(train[c], arg[c][i])) ELSE arg[c][i]

\* C2 as stated: a fitted EncodeCategorical's transform returns, for every
\* input table, a new table with every value of a fitted column replaced by
\* its code and every other column as in the input, and leaves the input
\* as it was.
C2_TransformAnyTable ==
    (EncoderFitted /\ call.op = "transform") =>
        /\ call.res.err = ""
        /\ Encoded(call.arg)
        /\ call.res.data = call.arg

\* Every value of the table in a fitted column was seen at fit time.
AllSeen(arg) == \A c \in FittedColumns : Range(arg[c]) \subseteq Range(train[c])

\* C2, amended: for every input table whose values in the fitted columns
\* were all seen at fit time, transform returns a new table with every value
\* of a fitted column replaced by its code and every other column as in the
\* input; for any other input it raises ValueError and returns no table; the
\* input table is as it was after the call in both cases.
C2_TransformSeenTable ==
    (EncoderFitted /\ call.op = "transform") =>
        /\ call.res.data = call.arg
        /\ IF AllSeen(call.arg)
           THEN call.res.err = "" /\ Encoded(call.arg)
           ELSE call.res.err = "ValueError"

\* An encoder fitted on some of the columns has encoded a record that is not
\* the training table.
C2_Witness ==
    /\ EncoderFitted /\ call.op = "transform" /\ call.res.err = ""
    /\ FittedColumns = {"workclass"}
    /\ call.arg # train
    /\ call.res.out # call.arg

\* C4: an EncodeCategorical fitted on T with columns C and applied to T gives,
\* in each column of C, as many distinct codes as the column has distinct
\* values in T: two rows get the same code exactly when they held the same
\* value.
C4_CodesCountValues ==
    (EncoderFitted /\ call.op = "transform" /\ call.arg = train) =>
        /\ call.res.err = ""
        /\ \A c \in FittedColumns :
              /\ Cardinality(Range(call.res.out[c])) = Cardinality(Range(train[c]))
              /\ \A i, j \in DOMAIN train[c] :
                    (call.res.out[c][i] = call.res.out[c][j]) <=> (train[c][i] = train[c][j])

\* The training table, with two values in one fitted column, was encoded.
C4_Witness ==
    /\ EncoderFitted /\ call.op = "transform" /\ call.arg = train /\ call.res.err = ""
    /\ \E c \in FittedColumns : Cardinality(Range(train[c])) >= 2

\* The column has an entry that is not the sentinel.
HasEntry(col) == \E i \in DOMAIN col : col[i].n # missing_values

\* v is a value of the column other than the sentinel, and no other such
\* value occurs more often.
IsMostFrequent(col, v) ==
    /\ v # missing_values
    /\ \E i \in DOMAIN col : col[i].n = v
    /\ \A w \in {col[i].n : i \in DOMAIN col} \ {missing_values} :
          Count(col, w) <= Count(col, v)

\* What the claim promises of the imputed training table.
Imputed ==
    \A c \in FittedColumns : \A i \in DOMAIN train[c] :
        LET x == train[c][i].n
            y == call.res.out[c][i].n
            r == stage.self.imputer.v.statistics[c]
        IN  /\ y # missing_values
            /\ x = missing_values => (r # <<>> /\ y = r[1] /\ IsMostFrequent(train[c], r[1]))
            /\ x # missing_values => y = x

InvalidStateErrors == {"AttributeError", "NotFittedError"}
DataErrors == {"ValueError"}

\* No fit call on the object has returned: the encoder has no encoders, the
\* imputer none or one whose fit raised, the pipeline an encoder without
\* encoders.
NeverFitted ==
    \/ stage.kind = "encoder" /\ stage.self.encoders.isNone
    \/ stage.kind = "imputer" /\ ~ImputerFitted
    \/ stage.kind = "pipeline" /\ stage.self.encoder.encoders.isNone

\* C5: transform on an EncodeCategorical or ImputeCategorical, or predict on
\* the pipeline, before the object was fitted raises an exception of a class
\* (AttributeError, NotFittedError) that no data error of a fitted object is
\* raised with (those are ValueError), and returns no table and no
\* prediction; nor does a pipeline whose classifier was not fitted return one.
C5_UnfittedRaises ==
    call.op \in {"transform", "predict"} =>
        /\ NeverFitted =>
              /\ call.res.err \in InvalidStateErrors \ DataErrors
              /\ call.res.out = NoTable
        /\ ~NeverFitted => call.res.err \in {""} \cup DataErrors \cup {"NotFittedError"}
        /\ (~NeverFitted /\ call.res.err = "NotFittedError") =>
              (stage.kind = "pipeline" /\ ~stage.self.classifier.fitted)
        /\ (stage.kind = "pipeline" /\ ~stage.self.classifier.fitted) => call.res.err # ""

\* transform was called on an encoder never fitted.
C5_Witness ==
    /\ stage.kind = "encoder" /\ stage.self.encoders.isNone
    /\ call.op = "transform" /\ call.res.err = "AttributeError"

\* ------------------------------------------------------------------ a run of the script
\* " <=50K" and " >50K"
TargetClasses == {<<32, 60, 61, 53, 48, 75>>, <<32, 62, 53, 48, 75>>}

\* adult.data as served: a table of 1..MaxRows rows with its income column.
TrainFiles ==
    UNION { {[data |-> T, target |-> y] :
               y \in [1..NRows(T) -> {Str(c) : c \in TargetClasses}]}
            : T \in RawFitTables }

\* adult.test as served (after the skipped first line): one row, its income
\* a class followed by a period.
TestFiles ==
    { [data |-> T, target |-> <<Str(c \o <<46>>)>>] : T \in RawRecords, c \in TargetClasses }

\* ['workclass', 'native-country', 'occupation'], as far as names holds them.
ImputerColumns == {"workclass"}

\* What the user may type at a prompt: "3", "?", "A", "F".
Inputs == {<<51>>, <<63>>, <<65>>, <<70>>}

\* str.lstrip(chars)
RECURSIVE lstrip(_, _)
lstrip(s, chars) ==
    IF s # <<>> /\ Head(s) \in chars THEN lstrip(Tail(s), chars) ELSE s

\* str.rstrip(chars)
RECURSIVE rstrip(_, _)
rstrip(s, chars) ==
    IF s # <<>> /\ s[Len(s)] \in chars
    THEN rstrip(SubSeq(s, 1, Len(s) - 1), chars)
    ELSE s

\* One column of the frame read_csv returns, the target included.
FrameColumn(frame, c) == IF c = names[Len(names)] THEN frame.target ELSE frame.data[c]

\* dtype == 'object': read_csv found a field that is no number.
IsObject(col) == \E i \in DOMAIN col : col[i].k = "str"

\* meta, lines 159-167
MakeMeta(frame) ==
    [ target_names |-> Range(frame.target),
      categorical_features |->
          [c \in {n \in Range(names) : IsObject(FrameColumn(frame, n))} |->
              Range(FrameColumn(frame, c))] ]

\* meta['categorical_features'].pop('income')
Pop(d, key) == [c \in DOMAIN d \ {key} |-> d[c]]

\* dict.get(key): the value, or None (here the empty list, as falsy as None).
Get(d, key) == IF key \in DOMAIN d THEN d[key] ELSE {}

\* An uncaught exception of class kind ends the run at the current statement.
Crash(kind) == pc' = "crashed" /\ err' = [kind |-> kind, at |-> pc]

InitScript ==
    /\ stage = [kind |-> "none", self |-> NoPipeline]
    /\ train = NoTable
    /\ fitArg = None
    /\ call = NoCall
    /\ pc = "read_csv"
    /\ files \in SUBSET {"adult.data", "README.md"}
    /\ server \in TrainFiles
    /\ ScriptStart

\* line 67: data = pd.read_csv('data/adult.data', ...), at import
ReadCsv ==
    /\ pc = "read_csv"
    /\ log' = Append(log, <<"read", "adult.data">>)
    /\ IF "adult.data" \in files
       THEN data' = server /\ pc' = "visualize" /\ err' = err
       ELSE data' = data /\ Crash("IOError")
    /\ UNCHANGED <<apiVars, files, server, meta, dataset, yencode, census, y_true, y_pred, pickled, model, column, record, asked, calls>>

\* lines 68-122: describe and the plots
Visualize ==
    /\ pc = "visualize"
    /\ pc' = "meta"
    /\ UNCHANGED <<apiVars, files, log, server, data, meta, dataset, yencode, census, y_true, y_pred, pickled, model, column, record, asked, err, calls>>

\* lines 159-170: meta, written to data/meta.json
WriteMeta ==
    /\ pc = "meta"
    /\ meta' = MakeMeta(data)
    /\ files' = files \cup {"meta.json"}
    /\ log' = Append(log, <<"write", "meta.json">>)
    /\ pc' = "download_data"
    /\ UNCHANGED <<apiVars, server, data, dataset, yencode, census, y_true, y_pred, pickled, model, column, record, asked, err, calls>>

\* line 315: download_data() writes the three files
DownloadData ==
    /\ pc = "download_data"
    /\ files' = files \cup {"adult.data", "adult.names", "adult.test"}
    /\ log' = log \o <<<<"write", "adult.data">>, <<"write", "adult.names">>,
                       <<"write", "adult.test">>>>
    /\ pc' = "load_data"
    /\ UNCHANGED <<apiVars, server, data, meta, dataset, yencode, census, y_true, y_pred, pickled, model, column, record, asked, err, calls>>

\* line 315: requests.get raises
DownloadFails ==
    /\ pc = "download_data"
    /\ Crash("ConnectionError")
    /\ UNCHANGED <<apiVars, files, log, server, data, meta, dataset, yencode, census, y_true, y_pred, pickled, model, column, record, asked, calls>>

\* line 318: load_data() reads meta.json, README.md, adult.data, adult.test
LoadData ==
    /\ pc = "load_data"
    /\ IF "README.md" \notin files
       THEN /\ log' = log \o <<<<"read", "meta.json">>, <<"read", "README.md">>>>
            /\ Crash("IOError")
            /\ dataset' = dataset
       ELSE /\ log' = log \o <<<<"read", "meta.json">>, <<"read", "README.md">>,
                               <<"read", "adult.data">>, <<"read", "adult.test">>>>
            /\ \E test \in TestFiles :
                  dataset' = [ data |-> server.data, target |-> server.target,
                               data_test |-> test.data, target_test |-> test.target,
                               target_names |-> meta.target_names,
                               categorical_features |->
                                   Pop(meta.categorical_features, names[Len(names)]) ]
            /\ pc' = "yencode"
            /\ err' = err
    /\ UNCHANGED <<apiVars, files, server, data, meta, yencode, census, y_true, y_pred, pickled, model, column, record, asked, calls>>

\* line 321: yencode = LabelEncoder().fit(dataset.target)
FitTargets ==
    /\ pc = "yencode"
    /\ yencode' = LabelEncoderFit(dataset.target)
    /\ pc' = "Pipeline"
    /\ UNCHANGED <<apiVars, files, log, server, data, meta, dataset, census, y_true, y_pred, pickled, model, column, record, asked, err, calls>>

\* lines 324-328: census = Pipeline([...])
Construct ==
    /\ pc = "Pipeline"
    /\ census' = Pipeline(Some(DOMAIN dataset.categorical_features), Some(ImputerColumns))
    /\ pc' = "fit"
    /\ UNCHANGED <<apiVars, files, log, server, data, meta, dataset, yencode, y_true, y_pred, pickled, model, column, record, asked, err, calls>>

\* line 331: census.fit(dataset.data, yencode.transform(dataset.target))
FitCensus ==
    /\ pc = "fit"
    /\ LET y == [i \in DOMAIN dataset.target |-> IndexOf(yencode, dataset.target[i])]
           f == PipelineFit(census, dataset.data, y)
       IN  /\ census' = f.self
           /\ calls' = Append(calls, [op |-> "fit", trace |-> f.trace])
           /\ IF f.err = "" THEN pc' = "y_true" /\ err' = err ELSE Crash(f.err)
    /\ UNCHANGED <<apiVars, files, log, server, data, meta, dataset, yencode, y_true, y_pred, pickled, model, column, record, asked>>

\* line 334: y_true = yencode.transform([y.rstrip(".") for y in dataset.target_test])
EncodeTestTargets ==
    /\ pc = "y_true"
    /\ LET stripped == [i \in DOMAIN dataset.target_test |->
                          Str(rstrip(dataset.target_test[i].s, {46}))]
       IN  IF Unseen(yencode, stripped)
           THEN Crash("ValueError") /\ y_true' = y_true
           ELSE /\ y_true' = [i \in DOMAIN stripped |-> IndexOf(yencode, stripped[i])]
                /\ pc' = "predict"
                /\ err' = err
    /\ UNCHANGED <<apiVars, files, log, server, data, meta, dataset, yencode, census, y_pred, pickled, model, column, record, asked, calls>>

\* line 337: y_pred = census.predict(dataset.data_test)
PredictTest ==
    /\ pc = "predict"
    /\ LET pre == PipelinePrePredict(census, dataset.data_test)
       IN  /\ census' = pre.self
           /\ calls' = Append(calls, [op |-> "predict", trace |-> pre.trace])
           /\ \E r \in PipelinePredict(census, dataset.data_test) :
                 IF r.err = ""
                 THEN y_pred' = r.out /\ pc' = "report" /\ err' = err
                 ELSE y_pred' = y_pred /\ Crash(r.err)
    /\ UNCHANGED <<apiVars, files, log, server, data, meta, dataset, yencode, y_true, pickled, model, column, record, asked>>

\* lines 341-343: the classification report, printed and plotted.  It is the
\* last statement to read y_true, y_pred and the test rows, which the model
\* keeps no longer than that.
Report ==
    /\ pc = "report"
    /\ y_true' = <<>>
    /\ y_pred' = <<>>
    /\ dataset' = [dataset EXCEPT !.data_test = NoTable, !.target_test = <<>>]
    /\ pc' = "dump_model"
    /\ UNCHANGED <<apiVars, files, log, server, data, meta, yencode, census, pickled, model, column, record, asked, err, calls>>

\* line 346: dump_model(census)
DumpModel ==
    /\ pc = "dump_model"
    /\ pickled' = census
    /\ files' = files \cup {"classifier.pickle"}
    /\ log' = Append(log, <<"write", "classifier.pickle">>)
    /\ pc' = "load_model"
    /\ UNCHANGED <<apiVars, server, data, meta, dataset, yencode, census, y_true, y_pred, model, column, record, asked, err, calls>>

\* line 349: model = load_model()
LoadModel ==
    /\ pc = "load_model"
    /\ model' = pickled
    /\ log' = Append(log, <<"read", "classifier.pickle">>)
    /\ pc' = "prompt"
    /\ UNCHANGED <<apiVars, files, server, data, meta, dataset, yencode, census, y_true, y_pred, pickled, column, record, asked, err, calls>>

\* The statement after the one that stored the value of feature number i.
AfterColumn(i) == IF i >= Len(features) THEN "model.predict" ELSE "prompt"

\* lines 293-294: fnlwgt is not asked for
DefaultFnlwgt ==
    /\ pc = "prompt"
    /\ features[column] = "fnlwgt"
    /\ record' = Append(record, Num(189778))
    /\ column' = column + 1
    /\ pc' = AfterColumn(column)
    /\ UNCHANGED <<apiVars, files, log, server, data, meta, dataset, yencode, census, y_true, y_pred, pickled, model, asked, err, calls>>

\* The test of line 302 with its membership test turned round.
NotValidInverted(valid, val) == valid # {} /\ Str(val) \in valid

\* The test of line 302 on the value val read for a feature with the known
\* values valid: TRUE when the value is refused.
NotValid(valid, val) == valid # {} /\ Str(val) \notin valid

\* lines 297-306: one round of the while loop, on one line typed by the user
Prompt ==
    /\ pc = "prompt"
    /\ features[column] # "fnlwgt"
    /\ \E typed \in Inputs :
          LET valid == Get(meta.categorical_features, features[column])
              val   == <<32>> \o typed
          IN  IF NotValid(valid, val)
              THEN /\ asked' = [column |-> features[column], val |-> val, stored |-> FALSE]
                   /\ UNCHANGED <<record, column, pc>>
              ELSE /\ asked' = [column |-> features[column], val |-> val, stored |-> TRUE]
                   /\ record' = Append(record, Str(val))
                   /\ column' = column + 1
                   /\ pc' = AfterColumn(column)
    /\ UNCHANGED <<apiVars, files, log, server, data, meta, dataset, yencode, census, y_true, y_pred, pickled, model, err, calls>>

\* pd.DataFrame([data])
RecordFrame(rec) ==
    [c \in Columns |-> <<rec[CHOOSE i \in DOMAIN features : features[i] = c]>>]

\* lines 309-310: yhat = model.predict(pd.DataFrame([data])), and the label printed
ModelPredict ==
    /\ pc = "model.predict"
    /\ LET X   == RecordFrame(record)
           pre == PipelinePrePredict(model, X)
       IN  /\ model' = pre.self
           /\ calls' = Append(calls, [op |-> "predict", trace |-> pre.trace])
           /\ \E r \in PipelinePredict(model, X) :
                 IF r.err = "" THEN pc' = "done" /\ err' = err ELSE Crash(r.err)
    /\ UNCHANGED <<apiVars, files, log, server, data, meta, dataset, yencode, census, y_true, y_pred, pickled, column, record, asked>>

NextScript ==
    \/ ReadCsv \/ Visualize \/ WriteMeta \/ DownloadData \/ DownloadFails \/ LoadData
    \/ FitTargets \/ Construct \/ FitCensus \/ EncodeTestTargets \/ PredictTest \/ Report
    \/ DumpModel \/ LoadModel \/ DefaultFnlwgt \/ Prompt \/ ModelPredict

Spec == InitScript /\ [][NextScript]_vars

\* ------------------------------------------------------------------ claims: the run of the script
\* The encoder and imputer state that fitting on the training table alone
\* gives: the encoder on the table's string columns, the imputer on the
\* encoder's output for it.
FitOnTraining ==
    LET cats == {c \in Columns : IsObject(server.data[c])}
        e    == EncodeCategoricalFit(EncodeCategorical(Some(cats)), server.data).self
        t    == EncodeCategoricalTransform(e, server.data).out
        i    == ImputeCategoricalFit(ImputeCategorical(Some(ImputerColumns)), t).self
    IN  [encoder |-> e, imputer |-> i]

\* C1: once the pipeline has been fitted on the training table, the encoder's
\* code tables and the imputer's replacement values are those of the training
\* table alone, in census, in the pickle and in the loaded model, whatever
\* was predicted since (the test table, the interactive record).
C1_FittedOnTrainingOnly ==
    \A p \in {census, pickled, model} :
        p.classifier.fitted =>
            p.encoder = FitOnTraining.encoder /\ p.imputer = FitOnTraining.imputer

\* The run ended after the fit and both predict calls.
C1_Witness ==
    pc = "done" /\ model.classifier.fitted /\ census.classifier.fitted /\ Len(calls) = 3

\* C9: in every pipeline call, fit or predict, each imputer call comes after
\* the encoder's transform and is handed integer codes only in its columns,
\* and every column of the imputer is a column the encoder encodes.
C9_ImputerAfterEncoder ==
    /\ \A k \in DOMAIN calls :
          LET tr == calls[k].trace
          IN  \A i \in DOMAIN tr :
                tr[i].stage = "imputer" =>
                    /\ \E j \in 1..(i - 1) :
                          tr[j].stage = "encoder" /\ tr[j].method = "transform"
                    /\ tr[i].strings \cap census.imputer.columns.v = {}
    /\ ~census.encoder.encoders.isNone =>
          census.imputer.columns.v \subseteq DOMAIN census.encoder.encoders.v

\* The imputer ran in the fit and in a predict.
C9_Witness ==
    /\ Len(calls) >= 2
    /\ \A k \in 1..2 :
          \E i \in DOMAIN calls[k].trace :
              calls[k].trace[i].stage = "imputer" /\ calls[k].trace[i].method = "transform"

\* The missing marker of the data files, " ?".
Marker == Str(<<32, 63>>)

CountCells(col, v) == Cardinality({i \in DOMAIN col : col[i] = v})

\* C10 as stated: for every training table and imputed column, code 0 is the
\* code of the marker '?' and of no other value, so that after the encoder
\* and the imputer every row that held the marker holds the code of the
\* column's most frequent real category, and every other row its own code.
C10_SentinelIsMarkerCode ==
    census.classifier.fitted =>
        LET enc == EncodeCategoricalTransform(census.encoder, server.data).out
            imp == ImputeCategoricalTransform(census.imputer, enc).out
        IN  \A c \in census.imputer.columns.v :
              LET col == server.data[c]
              IN  /\ \A v \in Range(col) : (CodeIn(col, v) = missing_values) <=> (v = Marker)
                  /\ \A i \in DOMAIN col :
                        IF col[i] = Marker
                        THEN \E v \in Range(col) \ {Marker} :
                                /\ \A w \in Range(col) \ {Marker} :
                                      CountCells(col, w) <= CountCells(col, v)
                                /\ imp[c][i] = Num(CodeIn(col, v))
                        ELSE imp[c][i] = enc[c][i]

\* The files download_data writes, and the model artifact.
Artifacts == {"adult.data", "adult.names", "adult.test", "classifier.pickle"}

\* C7 as stated: no data file is read before download_data has written it,
\* and classifier.pickle is read only after dump_model has written it.
C7_ReadOnlyWhatWasWritten ==
    \A i \in DOMAIN log :
        (log[i][1] = "read" /\ log[i][2] \in Artifacts) =>
            \E j \in 1..(i - 1) : log[j] = <<"write", log[i][2]>>

\* C8: every test target that is a training class followed by a period is
\* given, by rstrip(".") and yencode, the integer yencode gives that training
\* class; the statement does not raise on such targets.
C8_TestTargetsAsTraining ==
    LET similar(i, j) == dataset.target_test[i].s = dataset.target[j].s \o <<46>>
    IN  /\ err.at = "y_true" =>
              \E i \in DOMAIN dataset.target_test :
                  \A j \in DOMAIN dataset.target : ~similar(i, j)
        /\ y_true # <<>> =>
              \A i \in DOMAIN dataset.target_test : \A j \in DOMAIN dataset.target :
                  similar(i, j) => y_true[i] = IndexOf(yencode, dataset.target[j])

\* " >50K." was encoded.
C8_Witness ==
    /\ pc = "predict" /\ y_true # <<>>
    /\ dataset.target_test[1] = Str(<<32, 62, 53, 48, 75, 46>>)
    /\ \E j \in DOMAIN dataset.target : dataset.target[j] = Str(<<32, 62, 53, 48, 75>>)

\* The known values of feature number i, empty when it has none.
Domain(i) == Get(meta.categorical_features, features[i])

\* C6: in predict's loop a value outside its feature's known values is not
\* stored and the next prompt is for the same feature; a value is stored for
\* such a feature only when it is one of the known values, so the record
\* given to model.predict holds a known value for each of them.
C6_OnlyKnownValuesStored ==
    /\ \A i \in DOMAIN record :
          Domain(i) # {} => record[i] \in Domain(i)
    /\ (asked.column # "" /\ ~asked.stored) =>
          /\ pc = "prompt"
          /\ features[column] = asked.column
          /\ Len(record) = column - 1
          /\ Str(asked.val) \notin Domain(column)
    /\ pc \in {"model.predict", "done"} => Len(record) = Len(features)

\* A value was refused at the workclass prompt.
C6_Witness ==
    pc = "prompt" /\ asked.column = "workclass" /\ ~asked.stored /\ Len(record) = 1

====
